---- MODULE Spec2Model ----
(***************************************************************************)
(* A model of sessionup-pgstore (src/postgres.go, package pgstore): the    *)
(* PostgreSQL session table, the five sessionup.Store operations issued    *)
(* against it, and the background cleanup goroutine with its stop and      *)
(* error channels.                                                         *)
(*                                                                         *)
(* Every Store operation is one SQL statement followed by local decoding,  *)
(* so each is one atomic action.  The database is the single relation      *)
(* `table`; its clock (CURRENT_TIMESTAMP) is `now`.  Timestamps are        *)
(* abstract instants at the database's resolution.  The primary-key        *)
(* constraint of the table carries PostgreSQL's default name <table>_pkey, *)
(* the name Create compares against.                                       *)
(***************************************************************************)
EXTENDS Integers, Sequences, FiniteSets, TLC

VARIABLES
    store,       \* "unbuilt" before New, "ready" after it succeeded, "failed" otherwise
    interval,    \* the d passed to New
    tableExists, \* whether the backing table exists in the database
    indexExists, \* whether the table has an index on its expiry column
    table,       \* the rows of the backing table
    now,         \* the database clock
    last,        \* the call made in the latest step (a Store operation, New, or the
                 \* goroutine's deleteExpired), with what it returned
    origin,      \* per id, the Session the last successful Create of that id was given
    pcSweep,     \* where the cleanup goroutine is
    stopChan,    \* p.stopChan: "nil" or "made"
    tick,        \* whether a tick waits in the ticker's channel t.C
    sweepErr,    \* the error the goroutine holds for p.errChan
    errBuf,      \* values buffered in p.errChan
    undelivered, \* failed sweeps whose error no receiver has got yet
    pcStop,      \* where the host's StopCleanup call is
    stopReturned, \* whether a StopCleanup call has returned
    hostSync     \* whether the host has synchronised with the goroutine over a channel

vars == <<store, interval, tableExists, indexExists, table, now, last, origin, pcSweep, stopChan,
          tick, sweepErr, errBuf, undelivered, pcStop, stopReturned, hostSync>>

sweepVars == <<pcSweep, stopChan, tick, sweepErr, errBuf, undelivered>>
stopVars == <<pcStop, stopReturned, hostSync>>

\* ---------------------------------------------------------------- bounds

MaxTime == 2

IDs == {"id1", "id2"}
UserKeys == {"key", "other"}
Times == 1..MaxTime
\* Expiry times may lie beyond the last instant the clock reaches.
Expiries == 1..(MaxTime + 1)

\* ------------------------------------------------------------ data model

\* The zero time.Time of a zero-value sessionup.Session.
ZeroTime == 0

\* net.IP values: a nil slice, or the 4-byte or 16-byte form of an address.
IPNil == [len |-> 0, addr |-> ""]
Addrs == {"127.0.0.1"}

\* net.IP.String: "<nil>" for an empty slice, else the address's text.
IPString(ip) == IF ip.len = 0 THEN "<nil>" ELSE ip.addr

\* net.ParseIP: the 16-byte form of a textual address, nil for any other text.
ParseIP(s) == IF s \in Addrs THEN [len |-> 16, addr |-> s] ELSE IPNil

\* net.IP.Equal: the same address, whatever the form.
IPEqual(a, b) == (a.len = 0) = (b.len = 0) /\ a.addr = b.addr

\* The optional parts (IP, Agent.OS, Agent.Browser) the host supplies.
Optionals ==
    { <<IPNil, "", "">>,
      <<[len |-> 16, addr |-> "127.0.0.1"], "GNU/Linux", "Firefox">>,
      <<[len |-> 4, addr |-> "127.0.0.1"], "<nil>", "Firefox">> }

Session(c, e, id, key, opt) ==
    [CreatedAt |-> c, ExpiresAt |-> e, ID |-> id, UserKey |-> key,
     IP |-> opt[1], OS |-> opt[2], Browser |-> opt[3]]

\* sessionup.Session{}
ZeroSession == Session(ZeroTime, ZeroTime, "", "", <<IPNil, "", "">>)

\* sql.NullString
NullString == [String |-> "", Valid |-> FALSE]

\* A variant that keeps the text "<nil>".
setNullStringKeepNil(s) ==
    IF s # "" THEN [String |-> s, Valid |-> TRUE] ELSE NullString

setNullString(s) ==
    IF s # "" /\ s # "<nil>" THEN [String |-> s, Valid |-> TRUE] ELSE NullString

\* The seven values Create binds to the INSERT's placeholders.
\* A variant binding the two timestamps in the other order.
InsertArgsTimesSwapped(s) ==
    [created_at |-> s.ExpiresAt, expires_at |-> s.CreatedAt, id |-> s.ID,
     user_key |-> s.UserKey, ip |-> setNullString(IPString(s.IP)),
     agent_os |-> setNullString(s.OS), agent_browser |-> setNullString(s.Browser)]

InsertArgs(s) ==
    [created_at |-> s.CreatedAt, expires_at |-> s.ExpiresAt, id |-> s.ID,
     user_key |-> s.UserKey, ip |-> setNullString(IPString(s.IP)),
     agent_os |-> setNullString(s.OS), agent_browser |-> setNullString(s.Browser)]

\* rows.Scan into a Session, then the NULL handling of the optional columns.
ScanRow(r) ==
    [CreatedAt |-> r.created_at, ExpiresAt |-> r.expires_at, ID |-> r.id,
     UserKey |-> r.user_key,
     IP |-> IF r.ip.Valid THEN ParseIP(r.ip.String) ELSE IPNil,
     OS |-> r.agent_os.String, Browser |-> r.agent_browser.String]


\* The Sessions the host passes to Create, all made at the first instant:
\* with every combination of the optional parts,
StoreSessions ==
    { Session(1, e, id, key, opt) :
        e \in Expiries, id \in IDs, key \in UserKeys, opt \in Optionals }

\* and those of one client.
ClientSessions ==
    { s \in StoreSessions : s.IP.len = 16 }

\* A statement that fails before the database executes it leaves of the
\* Session only its id in what Create returns: one Session per id stands for all.
UnsentSessions ==
    { s \in ClientSessions : s.ExpiresAt = 1 /\ s.UserKey = "key" }

\* ------------------------------------------------------------- database

\* p.tName, and the name PostgreSQL gives the table's primary-key constraint.
tName == "sessions"
PkeyConstraint(t) == <<t, "_pkey">>

\* Errors: nil, sessionup.ErrDuplicateID, a *pq.Error naming a constraint,
\* any other error of the driver (a lost connection, a cancelled context).
NoErr == [type |-> "nil", Constraint |-> <<>>]
ErrDuplicateID == [type |-> "ErrDuplicateID", Constraint |-> <<>>]
PqError(c) == [type |-> "pq", Constraint |-> c]
DriverErr == [type |-> "driver", Constraint |-> <<>>]
\* sql.ErrNoRows
ErrNoRows == [type |-> "ErrNoRows", Constraint |-> <<>>]

\* What may go wrong with a statement before the database executes it.
Failures == {NoErr, DriverErr}

\* How a multi-row query may end: well, or with an error from QueryContext
\* ("query"), from a Scan ("scan") or from the iteration, seen by rr.Err() ("iter").
QueryOutcomes ==
    {[at |-> "none", err |-> NoErr], [at |-> "query", err |-> ErrNoRows]}
        \cup [at : {"query", "scan", "iter"}, err : {DriverErr}]

\* An INSERT may also fail on a constraint other than the primary key.
InsertFailures == Failures \cup {PqError(<<tName, "_check">>)}

\* INSERT INTO t VALUES (...): the primary key rejects a second row with the id.
\* A variant that replaces the stored row (an upsert).
ExecInsertOverwrite(t, row) ==
    [t |-> {r \in t : r.id # row.id} \cup {row}, err |-> NoErr]

\* A variant that, for an id already stored, moves the stored row's expiry.
ExecInsertMerge(t, row) ==
    IF \E r \in t : r.id = row.id
    THEN [t |-> {IF r.id = row.id THEN [r EXCEPT !.expires_at = row.expires_at] ELSE r : r \in t},
          err |-> NoErr]
    ELSE [t |-> t \cup {row}, err |-> NoErr]

ExecInsert(t, row) ==
    IF \E r \in t : r.id = row.id
    THEN [t |-> t, err |-> PqError(PkeyConstraint(tName))]
    ELSE [t |-> t \cup {row}, err |-> NoErr]

\* SELECT * FROM t WHERE id = $1 AND expires_at > CURRENT_TIMESTAMP
\* A variant without the expiry condition.
SelectByIDAnyExpiry(t, id, clock) == {r \in t : r.id = id}

SelectByID(t, id, clock) == {r \in t : r.id = id /\ r.expires_at > clock}

\* SELECT * FROM t WHERE user_key = $1
\* A variant with an expiry condition.
SelectByUserKeyActive(t, key, clock) ==
    {r \in t : r.user_key = key /\ r.expires_at > clock}

SelectByUserKey(t, key, clock) == {r \in t : r.user_key = key}

\* DELETE FROM t WHERE id = $1: the rows it removes.
\* A variant without the WHERE clause.
DeleteByIDRowsAll(t, id) == t

DeleteByIDRows(t, id) == {r \in t : r.id = id}

\* DELETE FROM t WHERE user_key = $1 [AND id != ALL ($2)]: the rows it removes.
\* A variant with id != ANY ($2).
DeleteByUserKeyRowsAny(t, key, expID) ==
    IF expID # {}
    THEN {r \in t : r.user_key = key /\ \E x \in expID : r.id # x}
    ELSE {r \in t : r.user_key = key}

DeleteByUserKeyRows(t, key, expID) ==
    IF expID # {}
    THEN {r \in t : r.user_key = key /\ \A x \in expID : r.id # x}
    ELSE {r \in t : r.user_key = key}

\* DELETE FROM t WHERE expires_at < CURRENT_TIMESTAMP: the rows it removes.
\* A variant with expires_at <= CURRENT_TIMESTAMP.
ExpiredRowsInclusive(t, clock) == {r \in t : r.expires_at <= clock}

\* A variant with the comparison the other way round.
ExpiredRowsInverted(t, clock) == {r \in t : r.expires_at > clock}

ExpiredRows(t, clock) == {r \in t : r.expires_at < clock}

\* The orders in which the database may return a set of rows.
RECURSIVE Orders(_)
Orders(S) ==
    IF S = {} THEN {<<>>}
    ELSE UNION { { <<r>> \o o : o \in Orders(S \ {r}) } : r \in S }

\* ---------------------------------------------------------------- state

\* dbErr is the error the INSERT gave Create, before Create maps it; cursor is
\* the state in which FetchByUserKey left its sql.Rows.
NoCall ==
    [op |-> "none", id |-> "", key |-> "", expID |-> {}, err |-> NoErr,
     found |-> FALSE, session |-> ZeroSession, list |-> <<>>, affected |-> 0,
     dbErr |-> NoErr, cursor |-> "none"]

\* origin keeps the source Session of the rows still stored.
Origin(t, o) ==
    [id \in IDs |-> IF \E r \in t : r.id = id THEN o[id] ELSE ZeroSession]

Init ==
    /\ store = "unbuilt"
    /\ interval = 0
    /\ tableExists \in BOOLEAN
    /\ indexExists = FALSE
    /\ table = {}
    /\ now = 1
    /\ last = NoCall
    /\ origin = [id \in IDs |-> ZeroSession]
    /\ pcSweep = "none"
    /\ stopChan = "nil"
    /\ tick = FALSE
    /\ sweepErr = NoErr
    /\ errBuf = <<>>
    /\ undelivered = 0
    /\ pcStop = "idle"
    /\ stopReturned = FALSE
    /\ hostSync = FALSE

\* The database clock moves on.
AdvanceTime ==
    /\ now < MaxTime
    /\ now' = now + 1
    /\ UNCHANGED <<store, interval, tableExists, indexExists, table, origin>>
    /\ UNCHANGED sweepVars
    /\ UNCHANGED stopVars
    /\ last' = NoCall

\* Whether New starts the cleanup goroutine: after the table was created, if d > 0.
\* A variant that starts it before looking at the error.
SweeperStartedAnyway(d, err) == d > 0

\* A variant that starts it whatever d is.
SweeperStartedAlways(d, err) == err = NoErr

SweeperStarted(d, err) == err = NoErr /\ d > 0

\* The schema statement of New, as the earlier package of this file has it:
\* CREATE TABLE IF NOT EXISTS ...; CREATE INDEX expiration ON ... (expires),
\* which the database rejects as a whole once the index exists.
ExecTableIndexed(tbl, idx) ==
    IF idx
    THEN [table |-> tbl, index |-> idx, err |-> PqError(<<>>)]
    ELSE [table |-> TRUE, index |-> TRUE, err |-> NoErr]

\* const table: CREATE TABLE IF NOT EXISTS %s (...), and no index.
ExecTable(tbl, idx) == [table |-> TRUE, index |-> idx, err |-> NoErr]

\* New(db, tName, d)
New(d, f) ==
    /\ store = "unbuilt"
    /\ interval' = d
    /\ LET res == IF f # NoErr
                  THEN [table |-> tableExists, index |-> indexExists, err |-> f]
                  ELSE ExecTable(tableExists, indexExists)
       IN /\ store' = IF res.err # NoErr THEN "failed" ELSE "ready"
          /\ tableExists' = res.table
          /\ indexExists' = res.index
          /\ pcSweep' = IF SweeperStarted(d, res.err) THEN "start" ELSE pcSweep
          /\ last' = [NoCall EXCEPT !.op = "New", !.err = res.err]
    /\ UNCHANGED <<table, now, origin, stopChan, tick, sweepErr, errBuf, undelivered>>
    /\ UNCHANGED stopVars

\* New(db, tName, 0) once more on the same database and table name: a second
\* store without a goroutine, whose operations are those of the first.
NewAgain(f) ==
    /\ store = "ready"
    /\ LET res == IF f # NoErr
                  THEN [table |-> tableExists, index |-> indexExists, err |-> f]
                  ELSE ExecTable(tableExists, indexExists)
       IN /\ tableExists' = res.table
          /\ indexExists' = res.index
          /\ last' = [NoCall EXCEPT !.op = "New", !.err = res.err]
    /\ UNCHANGED <<store, interval, table, now, origin>>
    /\ UNCHANGED sweepVars
    /\ UNCHANGED stopVars

\* The error Create returns for the error the INSERT gave.
\* A variant that takes every *pq.Error for a duplicate id.
CreateErrAnyPq(e) == IF e.type = "pq" THEN ErrDuplicateID ELSE e

CreateErr(e) ==
    IF e.type = "pq" /\ e.Constraint = PkeyConstraint(tName)
    THEN ErrDuplicateID ELSE e

\* Create(ctx, s)
Create(s, f) ==
    /\ store = "ready"
    /\ LET res == IF f # NoErr THEN [t |-> table, err |-> f]
                  ELSE ExecInsert(table, InsertArgs(s))
           err == CreateErr(res.err)
       IN /\ table' = res.t
          /\ origin' = IF err = NoErr THEN [origin EXCEPT ![s.ID] = s] ELSE origin
          /\ last' = [NoCall EXCEPT !.op = "Create", !.id = s.ID, !.err = err,
                                    !.dbErr = res.err]
    /\ UNCHANGED <<store, interval, tableExists, indexExists, now>>
    /\ UNCHANGED sweepVars
    /\ UNCHANGED stopVars

\* FetchByID(ctx, id)
FetchByID(id, f) ==
    /\ store = "ready"
    /\ LET rows == SelectByID(table, id, now)
       IN IF f # NoErr
          THEN last' = [NoCall EXCEPT !.op = "FetchByID", !.id = id, !.err = f]
          ELSE IF rows = {}
          THEN last' = [NoCall EXCEPT !.op = "FetchByID", !.id = id]
          ELSE \E r \in rows :
                 last' = [NoCall EXCEPT !.op = "FetchByID", !.id = id,
                                        !.found = TRUE, !.session = ScanRow(r)]
    /\ UNCHANGED <<store, interval, tableExists, indexExists, table, now, origin>>
    /\ UNCHANGED sweepVars
    /\ UNCHANGED stopVars

\* The sql.Rows when FetchByUserKey returns: there is none when QueryContext
\* failed; a failed Scan is followed by rr.Close(); and a Next that returns
\* false (at the end, or on an iteration error) has closed the Rows itself.
\* A variant without the rr.Close().
RowsAfterNoClose(at) ==
    IF at = "query" THEN "none" ELSE IF at = "scan" THEN "open" ELSE "closed"

RowsAfter(at) == IF at = "query" THEN "none" ELSE "closed"

\* FetchByUserKey(ctx, key).  sql.ErrNoRows can only stand for an empty
\* result, and a Scan can only fail when there is a row to scan.
FetchByUserKey(key, q) ==
    /\ store = "ready"
    /\ LET rows == SelectByUserKey(table, key, now)
           call == [NoCall EXCEPT !.op = "FetchByUserKey", !.key = key,
                                   !.dbErr = q.err]
       IN /\ q.err = ErrNoRows => rows = {}
          /\ q.at = "scan" => rows # {}
          /\ IF q.err = ErrNoRows
             THEN last' = call
             ELSE IF q.err # NoErr
             THEN last' = [call EXCEPT !.err = q.err, !.cursor = RowsAfter(q.at)]
             ELSE \E rr \in Orders(rows) :
                    last' = [call EXCEPT
                               !.list = [i \in 1..Len(rr) |-> ScanRow(rr[i])],
                               !.cursor = RowsAfter(q.at)]
    /\ UNCHANGED <<store, interval, tableExists, indexExists, table, now, origin>>
    /\ UNCHANGED sweepVars
    /\ UNCHANGED stopVars

\* DeleteByID(ctx, id)
DeleteByID(id, f) ==
    /\ store = "ready"
    /\ LET gone == IF f # NoErr THEN {} ELSE DeleteByIDRows(table, id)
       IN /\ table' = table \ gone
          /\ origin' = Origin(table \ gone, origin)
          /\ last' = [NoCall EXCEPT !.op = "DeleteByID", !.id = id, !.err = f,
                                    !.affected = Cardinality(gone)]
    /\ UNCHANGED <<store, interval, tableExists, indexExists, now>>
    /\ UNCHANGED sweepVars
    /\ UNCHANGED stopVars

\* DeleteByUserKey(ctx, key, expID...)
DeleteByUserKey(key, expID, f) ==
    /\ store = "ready"
    /\ LET gone == IF f # NoErr THEN {} ELSE DeleteByUserKeyRows(table, key, expID)
       IN /\ table' = table \ gone
          /\ origin' = Origin(table \ gone, origin)
          /\ last' = [NoCall EXCEPT !.op = "DeleteByUserKey", !.key = key,
                                    !.expID = expID, !.err = f,
                                    !.affected = Cardinality(gone)]
    /\ UNCHANGED <<store, interval, tableExists, indexExists, now>>
    /\ UNCHANGED sweepVars
    /\ UNCHANGED stopVars

\* ---------------------------------------------------- cleanup goroutine

\* The capacity of p.errChan: make(chan error) is unbuffered.
ErrChanCap == 0

\* Whether a send on p.errChan completes with no receiver waiting.
\* A variant for a channel that always has room.
SendNeverWaits(buf) == TRUE

SendCompletes(buf) == Len(buf) < ErrChanCap

\* Whether the ticker made by startCleanup is running.
TickerRunning == pcSweep \in {"select", "exec", "send"}

\* startCleanup's first statements: p.stopChan = make(...); t := time.NewTicker(d)
StartCleanup ==
    /\ pcSweep = "start"
    /\ stopChan' = "made"
    /\ pcSweep' = "select"
    /\ UNCHANGED <<store, interval, tableExists, indexExists, table, now, origin>>
    /\ UNCHANGED <<tick, sweepErr, errBuf, undelivered>>
    /\ UNCHANGED stopVars
    /\ last' = NoCall

\* The ticker puts a tick into t.C, which holds one; a tick that finds it full is dropped.
Tick ==
    /\ TickerRunning
    /\ ~tick
    /\ tick' = TRUE
    /\ UNCHANGED <<store, interval, tableExists, indexExists, table, now, origin>>
    /\ UNCHANGED <<pcSweep, stopChan, sweepErr, errBuf, undelivered>>
    /\ UNCHANGED stopVars
    /\ last' = NoCall

\* select: case <-t.C
SweepTick ==
    /\ pcSweep = "select"
    /\ tick
    /\ tick' = FALSE
    /\ pcSweep' = "exec"
    /\ UNCHANGED <<store, interval, tableExists, indexExists, table, now, origin>>
    /\ UNCHANGED <<stopChan, sweepErr, errBuf, undelivered>>
    /\ UNCHANGED stopVars
    /\ last' = NoCall

\* if err := p.deleteExpired(); err != nil { p.errChan <- err }
\* The send completes at once when the channel has room; else the goroutine
\* waits in it for a receiver.
SweepExec(f) ==
    /\ pcSweep = "exec"
    /\ IF f # NoErr
       THEN /\ undelivered' = undelivered + 1
            /\ IF SendCompletes(errBuf)
               THEN /\ errBuf' = Append(errBuf, f)
                    /\ pcSweep' = "select"
                    /\ UNCHANGED sweepErr
               ELSE /\ sweepErr' = f
                    /\ pcSweep' = "send"
                    /\ UNCHANGED errBuf
            /\ UNCHANGED <<table, origin>>
       ELSE /\ table' = table \ ExpiredRows(table, now)
            /\ origin' = Origin(table \ ExpiredRows(table, now), origin)
            /\ pcSweep' = "select"
            /\ UNCHANGED <<sweepErr, errBuf, undelivered>>
    /\ UNCHANGED <<store, interval, tableExists, indexExists, now>>
    /\ UNCHANGED <<stopChan, tick>>
    /\ UNCHANGED stopVars
    /\ last' = [NoCall EXCEPT !.op = "deleteExpired", !.err = f,
                 !.affected = IF f # NoErr THEN 0
                              ELSE Cardinality(ExpiredRows(table, now))]

\* The host receives from CleanupErr(): the oldest buffered value (a waiting
\* send then moves into the buffer), or else the value of the send the
\* goroutine waits in.
RecvErr ==
    /\ store = "ready"
    /\ IF errBuf # <<>>
       THEN /\ errBuf' = IF pcSweep = "send" THEN Append(Tail(errBuf), sweepErr)
                         ELSE Tail(errBuf)
       ELSE /\ pcSweep = "send"
            /\ UNCHANGED errBuf
    /\ pcSweep' = IF pcSweep = "send" THEN "select" ELSE pcSweep
    /\ sweepErr' = NoErr
    /\ undelivered' = undelivered - 1
    /\ hostSync' = TRUE
    /\ UNCHANGED <<store, interval, tableExists, indexExists, table, now, origin>>
    /\ UNCHANGED <<stopChan, tick>>
    /\ UNCHANGED <<pcStop, stopReturned>>
    /\ last' = NoCall

\* What a StopCleanup call may read from p.stopChan.  The goroutine writes the
\* field and the host reads it with nothing ordering the two: until the host
\* has synchronised with the goroutine, the read may still see nil.
\* A variant in which the read always sees the goroutine's write.
StopChanReadOrdered == {stopChan}

\* A variant without the nil check: the send is always attempted.
StopChanReadUnguarded == {"made"}

StopChanRead == IF hostSync THEN {stopChan} ELSE {"nil", stopChan}

\* StopCleanup(): if p.stopChan != nil { p.stopChan <- struct{}{} }
StopCleanupCall ==
    /\ store = "ready"
    /\ pcStop = "idle"
    /\ \E c \in StopChanRead :
         IF c = "nil"
         THEN /\ stopReturned' = TRUE
              /\ UNCHANGED pcStop
         ELSE /\ pcStop' = "send"
              /\ UNCHANGED stopReturned
    /\ UNCHANGED <<store, interval, tableExists, indexExists, table, now, origin>>
    /\ UNCHANGED sweepVars
    /\ UNCHANGED hostSync
    /\ last' = NoCall

\* select: case <-p.stopChan, meeting the send StopCleanup is blocked in;
\* then t.Stop(); return.
SweepStop ==
    /\ pcSweep = "select"
    /\ pcStop = "send"
    /\ pcSweep' = "done"
    /\ pcStop' = "idle"
    /\ stopReturned' = TRUE
    /\ hostSync' = TRUE
    /\ UNCHANGED <<store, interval, tableExists, indexExists, table, now, origin>>
    /\ UNCHANGED <<stopChan, tick, sweepErr, errBuf, undelivered>>
    /\ last' = NoCall

\* -------------------------------------------------------- specification

\* The store with its cleanup goroutine.
Next ==
    \/ AdvanceTime
    \/ \E d \in {0, 1}, f \in Failures : New(d, f)
    \/ \E s \in ClientSessions : Create(s, NoErr)
    \/ \E s \in UnsentSessions, f \in Failures \ {NoErr} : Create(s, f)
    \/ \E id \in IDs, f \in Failures : FetchByID(id, f)
    \/ \E key \in UserKeys, q \in QueryOutcomes : FetchByUserKey(key, q)
    \/ \E id \in IDs, f \in Failures : DeleteByID(id, f)
    \/ \E key \in UserKeys, expID \in SUBSET IDs, f \in Failures :
         DeleteByUserKey(key, expID, f)
    \/ StartCleanup
    \/ Tick
    \/ SweepTick
    \/ \E f \in Failures : SweepExec(f)
    \/ RecvErr
    \/ StopCleanupCall
    \/ SweepStop

Spec == Init /\ [][Next]_vars

\* The store made with interval 0 (no cleanup goroutine), given Sessions with
\* every combination of optional parts.
NextStore ==
    \/ AdvanceTime
    \/ \E f \in Failures : New(0, f)
    \/ \E f \in Failures : NewAgain(f)
    \/ \E s \in StoreSessions : Create(s, NoErr)
    \/ \E s \in UnsentSessions, f \in InsertFailures \ {NoErr} : Create(s, f)
    \/ \E id \in IDs, f \in Failures : FetchByID(id, f)
    \/ \E key \in UserKeys, q \in QueryOutcomes : FetchByUserKey(key, q)
    \/ \E id \in IDs, f \in Failures : DeleteByID(id, f)
    \/ \E key \in UserKeys, expID \in SUBSET IDs, f \in Failures :
         DeleteByUserKey(key, expID, f)

SpecStore == Init /\ [][NextStore]_vars

\* The Sessions of one user.
LiveSessions ==
    { s \in ClientSessions : s.UserKey = "key" }

\* The store made with interval > 0 and left to its cleanup goroutine: the
\* host creates Sessions, receives from CleanupErr() and calls StopCleanup,
\* and deletes nothing itself.
NextLive ==
    \/ AdvanceTime
    \/ \E f \in Failures : New(1, f)
    \/ \E s \in LiveSessions : Create(s, NoErr)
    \/ StartCleanup
    \/ Tick
    \/ SweepTick
    \/ \E f \in Failures : SweepExec(f)
    \/ RecvErr
    \/ StopCleanupCall
    \/ SweepStop

\* The goroutine started by New is scheduled, its ticker fires, and a
\* statement handed to the database comes back; whether it comes back with an
\* error, and whether the host receives from CleanupErr(), is left open.
SpecLive ==
    /\ Init
    /\ [][NextLive]_vars
    /\ WF_vars(StartCleanup)
    /\ WF_vars(Tick)
    /\ WF_vars(SweepTick)
    /\ WF_vars(\E f \in Failures : SweepExec(f))

\* The same, with a host that keeps receiving from CleanupErr() and a select
\* that does not pass over a waiting stop signal for ever (Go's select picks
\* among its ready cases at random).
SpecStop ==
    /\ SpecLive
    /\ WF_vars(RecvErr)
    /\ SF_vars(SweepStop)

\* ---------------------------------------------------------------- claims

\* An error that is not the database's verdict on the statement: the driver
\* failed, or another constraint than the primary key was violated.
OtherFailure(e) ==
    \/ e.type = "driver"
    \/ e.type = "pq" /\ e.Constraint # PkeyConstraint(tName)

HasOptionals(s) == s.IP.len # 0 /\ s.OS # "" /\ s.Browser # ""
NoOptionals(s) == s.IP.len = 0 /\ s.OS = "" /\ s.Browser = ""

SameRequired(a, b) ==
    /\ a.CreatedAt = b.CreatedAt
    /\ a.ExpiresAt = b.ExpiresAt
    /\ a.ID = b.ID
    /\ a.UserKey = b.UserKey

SameSession(a, b) ==
    /\ SameRequired(a, b)
    /\ IPEqual(a.IP, b.IP)
    /\ a.OS = b.OS
    /\ a.Browser = b.Browser

UniqueIDs == \A r1, r2 \in table : r1.id = r2.id => r1 = r2

\* C1: a Create whose id is already stored, expired or not, leaves the table
\* as it was and, when the database gives its verdict on the INSERT, returns
\* ErrDuplicateID; and the table never holds two rows with one id.
C1_DuplicateRejected ==
    /\ []UniqueIDs
    /\ [][ (last'.op = "Create" /\ \E r \in table : r.id = last'.id)
             => /\ table' = table
                /\ last'.err # NoErr
                /\ ~OtherFailure(last'.err) => last'.err = ErrDuplicateID ]_vars

\* A Create was refused for an id whose stored row has already expired.
C1_Witness ==
    /\ last.op = "Create"
    /\ last.err = ErrDuplicateID
    /\ \E r \in table : r.id = last.id /\ r.expires_at < now

\* C2: FetchByID finds a Session only when a row with the id expires strictly
\* after the database time; with no such row (none with the id, or an expired
\* one not yet swept) it returns the zero Session, found = false, and no error
\* unless the query itself failed.
C2_FetchByIDActiveOnly ==
    last.op = "FetchByID" =>
        LET active == {r \in table : r.id = last.id /\ r.expires_at > now}
        IN /\ last.found =>
                /\ active # {}
                /\ last.err = NoErr
                /\ last.session.ID = last.id
                /\ last.session.ExpiresAt > now
           /\ active = {} =>
                /\ ~last.found
                /\ last.session = ZeroSession
                /\ ~OtherFailure(last.err) => last.err = NoErr
           /\ (active # {} /\ ~OtherFailure(last.err)) => last.found

\* FetchByID reported "not found", without error, for an expired row still stored.
C2_Witness ==
    /\ last.op = "FetchByID"
    /\ ~last.found
    /\ last.err = NoErr
    /\ \E r \in table : r.id = last.id /\ r.expires_at < now

\* C3: a stored, unexpired Session whose optional fields are all non-empty is
\* fetched back equal to the Session that Create was given, in every field.
C3_RoundTripNonEmpty ==
    LET s == origin[last.id]
    IN (/\ last.op = "FetchByID"
        /\ ~OtherFailure(last.err)
        /\ s # ZeroSession
        /\ HasOptionals(s)
        /\ s.ExpiresAt > now)
       => /\ last.found
          /\ SameSession(last.session, s)

\* C4: a stored, unexpired Session whose optional fields are all empty is
\* fetched back with empty optional fields and the required fields it was
\* created with.
C4_RoundTripEmpty ==
    LET s == origin[last.id]
    IN (/\ last.op = "FetchByID"
        /\ ~OtherFailure(last.err)
        /\ s # ZeroSession
        /\ NoOptionals(s)
        /\ s.ExpiresAt > now)
       => /\ last.found
          /\ NoOptionals(last.session)
          /\ SameRequired(last.session, s)

\* A Session created without optional fields was fetched.
C4_Witness ==
    /\ last.op = "FetchByID"
    /\ last.found
    /\ NoOptionals(origin[last.id])
    /\ origin[last.id].CreatedAt # origin[last.id].ExpiresAt

\* C5: a successful DeleteByUserKey(key, except...) removes exactly the rows
\* of that user key whose id is not among the except ids, and no other row.
C5_DeleteByUserKeyExact ==
    [][ (last'.op = "DeleteByUserKey" /\ last'.err = NoErr)
          => table' = {r \in table :
                         ~(r.user_key = last'.key /\ r.id \notin last'.expID)} ]_vars

\* DeleteByUserKey removed a row of the user and kept the excepted one.
C5_Witness ==
    /\ last.op = "DeleteByUserKey"
    /\ last.err = NoErr
    /\ last.affected > 0
    /\ \E r \in table : r.user_key = last.key /\ r.id \in last.expID

\* C6: a successful FetchByUserKey returns the stored rows of that user key,
\* each once, expired ones included, and no row of another user key.
C6_FetchByUserKeyAll ==
    (last.op = "FetchByUserKey" /\ last.err = NoErr) =>
        LET rows == {r \in table : r.user_key = last.key}
            n == Len(last.list)
        IN /\ n = Cardinality(rows)
           /\ {last.list[i].ID : i \in 1..n} = {r.id : r \in rows}
           /\ \A i \in 1..n :
                /\ last.list[i].UserKey = last.key
                /\ \E r \in rows : /\ r.id = last.list[i].ID
                                   /\ r.expires_at = last.list[i].ExpiresAt
                                   /\ r.created_at = last.list[i].CreatedAt

\* FetchByUserKey returned two Sessions, one of them expired.
C6_Witness ==
    /\ last.op = "FetchByUserKey"
    /\ last.err = NoErr
    /\ Len(last.list) = 2
    /\ \E i \in 1..2 : last.list[i].ExpiresAt < now

\* C7, as claimed: every Session returned by FetchByID or by FetchByUserKey
\* expires strictly after the database time of the query.
C7_AllFetchesActive ==
    /\ (last.op = "FetchByID" /\ last.found) => last.session.ExpiresAt > now
    /\ last.op = "FetchByUserKey" =>
         \A i \in 1..Len(last.list) : last.list[i].ExpiresAt > now

\* C7, amended: every Session returned by FetchByID expires strictly after
\* the database time of the query.
C7_FetchByIDActive ==
    (last.op = "FetchByID" /\ last.found) => last.session.ExpiresAt > now

\* FetchByID returned a Session while an expired row of another id is stored.
C7_Witness ==
    /\ last.op = "FetchByID"
    /\ last.found
    /\ \E r \in table : r.expires_at < now

\* C8: a successful DeleteByID removes the row with that id and no other row;
\* with no such row the table is unchanged.
C8_DeleteByIDExact ==
    [][ (last'.op = "DeleteByID" /\ last'.err = NoErr)
          => table' = {r \in table : r.id # last'.id} ]_vars

\* DeleteByID removed a row and another row is still stored.
C8_Witness ==
    /\ last.op = "DeleteByID"
    /\ last.err = NoErr
    /\ last.affected = 1
    /\ table # {}

\* C9: the error of a failed sweep is held by the goroutine, waiting in its
\* send, until a receiver takes it: it is neither buffered nor dropped, the
\* goroutine runs no further delete-expired statement meanwhile, and there is
\* one value per failed sweep and none for a successful one.
C9_ErrorBlocksSweep ==
    /\ errBuf = <<>>
    /\ undelivered = (IF pcSweep = "send" THEN 1 ELSE 0)
    /\ (pcSweep = "send") = (sweepErr # NoErr)

\* The goroutine waits in its send while the next tick is already due.
C9_Witness ==
    /\ pcSweep = "send"
    /\ undelivered = 1
    /\ tick

\* C10: with interval > 0, once a StopCleanup call has returned the cleanup
\* goroutine has ended.
C10_StoppedForGood ==
    (interval > 0 /\ stopReturned) => pcSweep = "done"

\* C11: on a store made with interval 0, StopCleanup never waits: p.stopChan
\* stays nil, there is no goroutine, and a call changes nothing of the store.
C11_StopUnstartedNoOp ==
    /\ [](store = "ready" /\ interval = 0
            => pcStop = "idle" /\ stopChan = "nil" /\ pcSweep = "none")
    /\ [][ (store = "ready" /\ interval = 0 /\ ~stopReturned /\ stopReturned')
             => UNCHANGED <<table, pcSweep, stopChan, tick, errBuf, undelivered>> ]_vars

\* StopCleanup has returned on a store made with interval 0.
C11_Witness ==
    /\ store = "ready"
    /\ interval = 0
    /\ stopReturned
    /\ pcStop = "idle"

\* C12: once the cleanup goroutine has been stopped, no StopCleanup call waits.
C12_StopIdempotent ==
    pcSweep = "done" => pcStop = "idle"

\* C13: a successful sweep removes exactly the rows that expired strictly
\* before the database time, and so none that FetchByID would return.
C13_SweepExact ==
    [][ (last'.op = "deleteExpired" /\ last'.err = NoErr)
          => /\ table' = {r \in table : r.expires_at >= now}
             /\ \A id \in IDs : SelectByID(table', id, now) = SelectByID(table, id, now) ]_vars

\* A sweep removed an expired row and left one that expires at this very instant.
C13_Witness ==
    /\ last.op = "deleteExpired"
    /\ last.err = NoErr
    /\ last.affected > 0
    /\ \E r \in table : r.expires_at = now

\* C15: when the table creation fails New returns the error and no store, and
\* starts no goroutine, whatever the interval; a goroutine exists only for a
\* store whose table was created.
C15_NoSweeperOnFailure ==
    /\ store = "failed" => pcSweep = "none" /\ stopChan = "nil"
    /\ pcSweep # "none" => store = "ready" /\ tableExists

\* New failed although it was given an interval > 0.
C15_Witness ==
    /\ store = "failed"
    /\ interval > 0
    /\ last.op = "New"
    /\ last.err # NoErr

\* The cleanup goroutine exists and has not been stopped.
Running == pcSweep \in {"start", "select", "exec", "send"}

\* A row of this id whose expires_at has passed is stored.
ExpiredStored(id) == \E r \in table : r.id = id /\ r.expires_at < now

SweepFailed == last.op = "deleteExpired" /\ last.err # NoErr
SweepSucceeded == last.op = "deleteExpired" /\ last.err = NoErr

\* While the goroutine runs, an expired row is eventually removed by a sweep.
ExpiredEventuallySwept ==
    \A id \in IDs :
        (Running /\ ExpiredStored(id)) ~> (~ExpiredStored(id) \/ pcSweep = "done")

\* C14: while the goroutine runs and its ticks fire, if every sweep succeeds
\* or the host keeps receiving from the error channel, every expired row is
\* eventually removed without an explicit delete.
C14_SweptIfDrained ==
    ([](~SweepFailed) \/ ((pcSweep = "send") ~> (pcSweep # "send")))
        => ExpiredEventuallySwept

\* C14 as the code has it: the rows are removed provided sweeps do not fail
\* for ever, that is every failed sweep is eventually followed by a successful
\* one (for which the host must have received the error of the failed one).
C14_SweptIfSweepsRecover ==
    (SweepFailed ~> (SweepSucceeded \/ pcSweep = "done"))
        => ExpiredEventuallySwept

\* A sweep of the running goroutine has just removed an expired row, after the
\* host received the error of an earlier sweep.
C14_Witness ==
    /\ Running
    /\ hostSync
    /\ SweepSucceeded
    /\ last.affected > 0

\* C16: a store made with interval 0 has no cleanup goroutine and never has a
\* value on its error channel, and its rows leave the table only by
\* DeleteByID or DeleteByUserKey; a store made with interval > 0 has the
\* goroutine from construction on.
C16_NoSweepWithoutInterval ==
    /\ [](interval = 0
            => /\ pcSweep = "none"
               /\ undelivered = 0
               /\ errBuf = <<>>
               /\ sweepErr = NoErr)
    /\ [](store = "ready" /\ interval > 0 => pcSweep # "none")
    /\ [][ (interval = 0 /\ ~(table \subseteq table'))
             => last'.op \in {"DeleteByID", "DeleteByUserKey"} ]_vars

\* On a store made with interval 0 an explicit delete has removed a row and a
\* row that expired is still stored.
C16_Witness ==
    /\ store = "ready"
    /\ interval = 0
    /\ last.op \in {"DeleteByID", "DeleteByUserKey"}
    /\ last.affected > 0
    /\ \E r \in table : r.expires_at < now

\* C17: Create returns ErrDuplicateID exactly when the database reports a
\* violation of the constraint <table>_pkey, returns every other failure of
\* the database as it is, and a Create that failed leaves the table as it was.
C17_CreateErrors ==
    /\ [](last.op = "Create"
            => /\ (last.err = ErrDuplicateID)
                     = (last.dbErr = PqError(PkeyConstraint(tName)))
               /\ last.dbErr # PqError(PkeyConstraint(tName))
                     => last.err = last.dbErr)
    /\ [][ (last'.op = "Create" /\ last'.err # NoErr) => table' = table ]_vars

\* The database rejected an INSERT for another constraint than the primary
\* key, on a table that holds rows.
C17_Witness ==
    /\ last.op = "Create"
    /\ last.dbErr = PqError(<<tName, "_check">>)
    /\ last.err = last.dbErr
    /\ table # {}

\* C18: however Create calls with one id interleave with each other and with
\* deletes and sweeps, a Create succeeds only when no row has its id and then
\* adds just its own row, a Create that finds the id stored is answered with
\* ErrDuplicateID by the database, no two rows share an id, and every row is
\* as a whole the row of the one Create that succeeded for it.
C18_OneCreatePerID ==
    /\ [](UniqueIDs /\ \A r \in table : r = InsertArgs(origin[r.id]))
    /\ [][ last'.op = "Create"
             => /\ last'.err = NoErr
                  => /\ ~\E r \in table : r.id = last'.id
                     /\ table' = table \cup {InsertArgs(origin'[last'.id])}
                /\ ((\E r \in table : r.id = last'.id) /\ ~OtherFailure(last'.err))
                  => last'.err = ErrDuplicateID /\ table' = table ]_vars

\* A Create was refused for an id whose row has expired and is about to be
\* swept by the goroutine, another row being stored as well.
C18_Witness ==
    /\ last.op = "Create"
    /\ last.err = ErrDuplicateID
    /\ pcSweep = "exec"
    /\ \E r \in table : r.id = last.id /\ r.expires_at < now
    /\ \E r \in table : r.id # last.id

\* The column holds NULL / the empty string.
IsNull(col) == ~col.Valid
IsEmptyString(col) == col.Valid /\ col.String = ""

\* C19: no optional column of a stored row holds the empty string, and an
\* optional column is NULL exactly when the field of the Session the row was
\* created from was empty (s.IP nil, Agent.OS "", Agent.Browser "").
C19_NullIffEmpty ==
    \A r \in table :
        LET s == origin[r.id]
        IN /\ ~IsEmptyString(r.ip)
           /\ ~IsEmptyString(r.agent_os)
           /\ ~IsEmptyString(r.agent_browser)
           /\ IsNull(r.ip) = (s.IP.len = 0)
           /\ IsNull(r.agent_os) = (s.OS = "")
           /\ IsNull(r.agent_browser) = (s.Browser = "")

\* C20: FetchByUserKey returns no list and no error when no row has the key
\* or the query reports sql.ErrNoRows, returns no list and the error when the
\* query, a Scan or the iteration fails, and has closed the rows it was given
\* whenever it returns after the query succeeded.
C20_FetchByUserKeyFailures ==
    last.op = "FetchByUserKey"
        => /\ last.dbErr = ErrNoRows => last.err = NoErr /\ last.list = <<>>
           /\ last.dbErr \notin {NoErr, ErrNoRows}
                 => last.err = last.dbErr /\ last.list = <<>>
           /\ (last.dbErr = NoErr /\ ~\E r \in table : r.user_key = last.key)
                 => last.err = NoErr /\ last.list = <<>>
           /\ last.err # NoErr => last.list = <<>>
           /\ last.cursor # "open"
           /\ last.cursor = "none" => last.dbErr # NoErr

\* FetchByUserKey failed after its query had succeeded, on rows of the key,
\* and the rows are closed.
C20_Witness ==
    /\ last.op = "FetchByUserKey"
    /\ last.err = DriverErr
    /\ last.cursor = "closed"
    /\ \E r1, r2 \in table : r1 # r2 /\ r1.user_key = last.key /\ r2.user_key = last.key

\* A StopCleanup call has been made on a store whose goroutine has not ended:
\* the call waits in its send, or it has returned.
StopCalledWhileRunning == Running /\ (pcStop = "send" \/ stopReturned)

\* C21: a StopCleanup call made while the cleanup goroutine runs eventually
\* returns with the goroutine ended, when the host keeps receiving from the
\* error channel; and the goroutine ends only from its select, never in the
\* middle of deleteExpired.
C21_StopEndsSweeper ==
    /\ StopCalledWhileRunning ~> (pcSweep = "done" /\ pcStop = "idle" /\ stopReturned)
    /\ [][ (pcSweep # "done" /\ pcSweep' = "done") => pcSweep = "select" ]_vars

====
